---- MODULE Spec2Model ----
(***************************************************************************)
(* Adafruit_Thermal (DFRobot GY-EH402 fork): the driver of a thermal       *)
(* receipt printer, src/Adafruit_Thermal.cpp.                              *)
(*                                                                         *)
(* The driver object is modelled field by field.  A C++ method is an       *)
(* operator from a "call record" (the object's fields together with the    *)
(* clock, the transport and what the call has done so far) to the call     *)
(* record after it; an action is one call of a public method by the        *)
(* sketch.  Lower-case operators carry the names of the methods they       *)
(* model; the action that calls method m is named M.                       *)
(*                                                                         *)
(* micros() is a wrapping counter.  The driver only ever forms             *)
(* micros() + x and (long)(micros() - resumeTime), so a state keeps the    *)
(* deadline relative to the clock reading at which the last call returned  *)
(* (busyLeft) and every call is given an absolute clock reading (epoch),   *)
(* taken either far from or just before the counter's rollover.            *)
(***************************************************************************)
EXTENDS Integers, Sequences, FiniteSets, TLC

\* ------------------------------------------------------------------------
\* Bounds of the model
\* ------------------------------------------------------------------------
\* calls (begin() included) in one session of the full specification
MaxOps == 2
\* calls in one session of the text specification
MaxTextOps == 4
MaxFormatOps == 4
MaxClampOps == 3
MaxHeaderOps == 2
MaxLaps == 2
MaxDeadlineOps == 3
\* calls in one session of the bitmap specification
MaxBitmapOps == 3
\* longest run of printable characters handed to write() by one print()
MaxChars == 33
\* largest line count passed to feed()
MaxFeed == 2
\* tallest bitmap, in rows
MaxRows == 6
\* chunk headers after which a bitmap transfer is no longer followed
MaxChunks == 12
\* data bytes of a user-defined character upload
MaxUserBytes == 2

\* ------------------------------------------------------------------------
\* Constants of the source
\* ------------------------------------------------------------------------
BAUDRATE == 9600
ASCII_TAB == 9
ASCII_LF == 10
ASCII_FF == 12
ASCII_CR == 13
ASCII_DC2 == 18
ASCII_ESC == 27
ASCII_FS == 28
ASCII_GS == 29
FIN_CMD == 12
BYTE_TIME == ((11 * 1000000) + (BAUDRATE \div 2)) \div BAUDRATE

FONT_MASK == 1
INVERSE_MASK == 2
UPDOWN_MASK == 4
BOLD_MASK == 8
DOUBLE_HEIGHT_MASK == 16
DOUBLE_WIDTH_MASK == 32
STRIKE_MASK == 64

\* "no DTR pin" value of the constructor's dtr argument (begin: dtrPin < 255)
NO_DTR == 255

\* micros() and resumeTime are unsigned long.  The counter is modelled with
\* 30 bits instead of 32 so that sums of two clock values stay inside the
\* integers the model checker computes with; every duration of the model is
\* below 2^29, as every duration of the driver is below 2^31.
ClockMod == 1073741824

\* ------------------------------------------------------------------------
\* Fixed-width arithmetic
\* ------------------------------------------------------------------------
U8(x) == x % 256

\* (uint16_t)x
U16(x) == x % 65536

\* bit k of x
Bit(x, k) == (x \div (2 ^ k)) % 2

\* x & m for a byte x and a byte mask m
RECURSIVE AndBits(_, _, _)
AndBits(x, m, k) ==
  IF k > 7 THEN 0
  ELSE (IF Bit(x, k) = 1 /\ Bit(m, k) = 1 THEN 2 ^ k ELSE 0) + AndBits(x, m, k + 1)

BitAnd(x, m) == AndBits(x, m, 0)

\* x | m
BitOr(x, m) == x + m - BitAnd(x, m)

\* x & ~m, as a byte
BitClear(x, m) == x - BitAnd(x, m)

\* micros() + x on the wrapping counter
ClockAdd(a, x) == (a + x) % ClockMod

\* (long)(a - b): the signed difference of two counter readings
SignedDiff(a, b) ==
  LET d == (a - b) % ClockMod
  IN IF d >= ClockMod \div 2 THEN d - ClockMod ELSE d

\* ------------------------------------------------------------------------
\* The clock and the transport, as one call sees them
\* ------------------------------------------------------------------------
\* A call record t holds the object's fields (firmware .. maxChunkHeight),
\* the clock reading t.now, the time t.el the call has taken so far, the
\* bytes t.tx the call has handed to stream->write(), and what was observed
\* of them: t.early (a byte was written before resumeTime had passed),
\* t.waited (timeoutWait() had to wait for resumeTime), t.firstAt / t.lastAt
\* (t.el when the first / the last byte was written, -1 before any),
\* t.lastSet (the argument of the last timeoutSet(), -1 before any).

\* v; Op: the statements of a method run one after the other.  v is the
\* call record (or the value) the statements so far leave, computed once;
\* Op is the rest of the method.
Bind(v, Op(_)) == CHOOSE r \in {Op(x) : x \in {v}} : TRUE

\* Passes x .. x + n - 1 of a loop, where Loop(t, x, n) runs n passes from
\* pass x on: the range is cut into four runs that follow each other.
Split(t, x, n, Loop(_, _, _)) ==
  Bind(<<x, n, (n + 3) \div 4>>, LAMBDA p :
  Bind(Loop(t, p[1], p[3]), LAMBDA a :
  Bind(Loop(a, p[1] + p[3], IF p[2] - p[3] < p[3] THEN p[2] - p[3] ELSE p[3]),
       LAMBDA b :
  Bind(Loop(b, p[1] + 2 * p[3],
            IF p[2] - 2 * p[3] < p[3] THEN p[2] - 2 * p[3] ELSE p[3]),
       LAMBDA c :
  Loop(c, p[1] + 3 * p[3], p[2] - 3 * p[3])))))

\* d microseconds pass
Elapse(t, d) == [t EXCEPT !.now = ClockAdd(@, d), !.el = @ + d]

\* delay(ms)
delay(t, ms) == Elapse(t, ms * 1000)

\* a timeoutSet() that sets the deadline with the handshake line in use too
timeoutSetAlways(t, x) ==
  [t EXCEPT !.resumeTime = ClockAdd(t.now, x), !.lastSet = x]

timeoutSet(t, x) ==
  IF ~t.dtrEnabled
  THEN [t EXCEPT !.resumeTime = ClockAdd(t.now, x), !.lastSet = x]
  ELSE [t EXCEPT !.lastSet = x]

\* The wait loop ends at the first clock reading it sees with
\* (long)(micros() - resumeTime) >= 0; t.slack is how far past resumeTime
\* that reading is (yield() ran other work).  With the handshake line the
\* loop ends when the printer pulls the line low, t.slack from now.
timeoutWait(t) ==
  IF t.dtrEnabled
  THEN Elapse(t, t.slack)
  ELSE IF SignedDiff(t.now, t.resumeTime) < 0
       THEN [Elapse(t, t.slack - SignedDiff(t.now, t.resumeTime)) EXCEPT !.waited = TRUE]
       ELSE t

\* stream->write(b): the byte goes out now; the call takes t.latency
StreamWrite(t, b) ==
  Elapse([t EXCEPT !.tx = Append(@, U8(b)),
                   !.early = @ \/ (~t.dtrEnabled /\ SignedDiff(t.now, t.resumeTime) < 0),
                   !.firstAt = IF @ < 0 THEN t.el ELSE @,
                   !.lastAt = t.el],
         t.latency)

\* stream->write(bs[x]); ... stream->write(bs[x + n - 1]);
RECURSIVE StreamWriteRun(_, _, _, _)
StreamWriteRun(t, bs, x, n) ==
  IF n > 1 THEN Split(t, x, n, LAMBDA a, y, m : StreamWriteRun(a, bs, y, m))
  ELSE IF n = 1 THEN StreamWrite(t, bs[x]) ELSE t

StreamWriteAll(t, bs) == StreamWriteRun(t, bs, 1, Len(bs))

\* writeBytes() with the wait left out: the throttle property (C3) must
\* tell this variant from the code
writeBytesUnthrottled(t, bs) ==
  Bind(StreamWriteAll(t, bs), LAMBDA b :
  timeoutSet(b, Len(bs) * BYTE_TIME))

\* the five writeBytes overloads: bs is the argument list
writeBytes(t, bs) ==
  Bind(timeoutWait(t), LAMBDA a :
  Bind(StreamWriteAll(a, bs), LAMBDA b :
  timeoutSet(b, Len(bs) * BYTE_TIME)))

writeCmdBytes(t, a, b, c, d) ==
  Bind(IF ~d THEN timeoutWait(t) ELSE t, LAMBDA u :
  Bind(StreamWriteAll(u, <<a, b, c>>), LAMBDA v :
  timeoutSet(v, 3 * BYTE_TIME)))

\* write() with the two line charges the wrong way round: the charge
\* property (C7) must tell this variant from the code
writeChargesSwapped(t, c) ==
  IF c # 13
  THEN Bind(timeoutWait(t), LAMBDA u :
       Bind(StreamWrite(u, c), LAMBDA a :
       LET wrap == (c = ASCII_LF) \/ (a.column = a.maxColumn)
           d == BYTE_TIME +
                (IF wrap
                 THEN (IF a.prevByte = ASCII_LF
                       THEN (a.charHeight * a.dotPrintTime) +
                            (a.lineSpacing * a.dotFeedTime)
                       ELSE (a.charHeight + a.lineSpacing) * a.dotFeedTime)
                 ELSE 0)
       IN Bind(IF wrap THEN [a EXCEPT !.column = 0]
                       ELSE [a EXCEPT !.column = a.column + 1], LAMBDA b :
          [timeoutSet(b, d) EXCEPT !.prevByte = IF wrap THEN ASCII_LF ELSE c])))
  ELSE t

write(t, c) ==
  IF c # 13
  THEN Bind(timeoutWait(t), LAMBDA u :
       Bind(StreamWrite(u, c), LAMBDA a :
       LET wrap == (c = ASCII_LF) \/ (a.column = a.maxColumn)
           d == BYTE_TIME +
                (IF wrap
                 THEN (IF a.prevByte = ASCII_LF
                       THEN (a.charHeight + a.lineSpacing) * a.dotFeedTime
                       ELSE (a.charHeight * a.dotPrintTime) +
                            (a.lineSpacing * a.dotFeedTime))
                 ELSE 0)
       IN Bind(IF wrap THEN [a EXCEPT !.column = 0]
                       ELSE [a EXCEPT !.column = a.column + 1], LAMBDA b :
          [timeoutSet(b, d) EXCEPT !.prevByte = IF wrap THEN ASCII_LF ELSE c])))
  ELSE t

\* Print::print / println hand a string to write() one character at a
\* time: write(cs[x]); ... write(cs[x + n - 1]);
RECURSIVE writeRun(_, _, _, _)
writeRun(t, cs, x, n) ==
  IF n > 1 THEN Split(t, x, n, LAMBDA a, y, m : writeRun(a, cs, y, m))
  ELSE IF n = 1 THEN write(t, cs[x]) ELSE t

writeAll(t, cs) == Bind(cs, LAMBDA s : writeRun(t, s, 1, Len(s)))

\* ------------------------------------------------------------------------
\* Initialisation
\* ------------------------------------------------------------------------
reset(t) ==
  Bind(writeBytes(t, <<ASCII_ESC, 64>>), LAMBDA a :
  Bind([a EXCEPT !.prevByte = ASCII_LF, !.column = 0, !.maxColumn = 32,
                 !.charHeight = 24, !.lineSpacing = 6, !.barcodeHeight = 50],
       LAMBDA b :
  IF b.firmware >= 264
  THEN Bind(writeBytes(b, <<ASCII_ESC, 68>>), LAMBDA c :
       Bind(writeBytes(c, <<4, 8, 12, 16>>), LAMBDA d :
       writeBytes(d, <<20, 24, 28, 0>>)))
  ELSE b))

\* passes i .. i + n - 1 of for (uint8_t i = 0; i < 10; i++)
RECURSIVE wakeNuls(_, _, _)
wakeNuls(t, i, n) ==
  IF n > 1 THEN Split(t, i, n, wakeNuls)
  ELSE IF n = 1 THEN Bind(writeBytes(t, <<0>>), LAMBDA a : timeoutSet(a, 10000))
       ELSE t

wake(t) ==
  Bind(timeoutSet(t, 0), LAMBDA a :
  Bind(writeBytes(a, <<255>>), LAMBDA b :
  IF b.firmware >= 264
  THEN Bind(delay(b, 50), LAMBDA c : writeBytes(c, <<ASCII_ESC, 56, 0, 0>>))
  ELSE wakeNuls(b, 0, 10)))

setHeatConfig(t, dots, time, interval) ==
  Bind(writeBytes(t, <<ASCII_ESC, 55>>), LAMBDA a :
  writeBytes(a, <<dots, time, interval>>))

\* setHeatConfig() is called with its default arguments
begin(t, version) ==
  Bind(timeoutSet([t EXCEPT !.firmware = version], 500000), LAMBDA a :
  Bind(wake(a), LAMBDA b :
  Bind(reset(b), LAMBDA c :
  Bind(setHeatConfig(c, 11, 120, 40), LAMBDA d :
  Bind(IF d.dtrPin < 255
       THEN [writeBytes(d, <<ASCII_GS, 97, 32>>) EXCEPT !.dtrEnabled = TRUE]
       ELSE d, LAMBDA e :
  [e EXCEPT !.dotPrintTime = 30000, !.dotFeedTime = 2100,
            !.maxChunkHeight = 255])))))

\* ------------------------------------------------------------------------
\* Formatting state
\* ------------------------------------------------------------------------
toupper(c) == IF c >= 97 /\ c <= 122 THEN c - 32 ELSE c

\* a table that knows fonts A and B only
FontWidthTwoFonts(f) == IF f = 1 THEN 9 ELSE 12

\* the per-font table of adjustCharValues()
FontWidth(f) == CASE f = 1 -> 9 [] f = 2 -> 9 [] f = 3 -> 8 [] f = 4 -> 16 [] OTHER -> 12

FontHeight(f) == CASE f = 1 -> 24 [] f = 2 -> 17 [] f = 3 -> 16 [] f = 4 -> 16 [] OTHER -> 24

adjustCharValues(t) ==
  Bind(BitAnd(t.fontData, 7), LAMBDA currentFont :
  Bind([t EXCEPT !.charWidth = FontWidth(currentFont),
                 !.charHeight = FontHeight(currentFont)], LAMBDA a :
  Bind(IF BitAnd(a.printMode, DOUBLE_WIDTH_MASK) # 0
       THEN [a EXCEPT !.charWidth = U8(a.charWidth * 2),
                      !.maxColumn = a.maxColumn \div 2]
       ELSE a, LAMBDA b :
  Bind(IF BitAnd(b.printMode, DOUBLE_HEIGHT_MASK) # 0
       THEN [b EXCEPT !.charHeight = U8(b.charHeight * 2)]
       ELSE b, LAMBDA c :
  Bind(BitOr(U8(BitAnd(c.printMode, 32) * 4), BitAnd(c.printMode, 16) \div 2),
       LAMBDA fontStyle :
  Bind([c EXCEPT !.maxColumn = 384 \div c.charWidth,
                 !.fontData = BitOr(fontStyle, currentFont)], LAMBDA e :
  Bind(writeBytes(e, <<ASCII_ESC, 77, currentFont, FIN_CMD>>), LAMBDA f :
  Bind(writeBytes(f, <<ASCII_GS, 33, fontStyle \div 8, FIN_CMD>>), LAMBDA g :
  IF g.autoLineHeight
  THEN writeBytes(g, <<ASCII_ESC, 51, g.charHeight + g.lineSpacing>>)
  ELSE g))))))))

writePrintMode(t) == writeBytes(t, <<ASCII_ESC, 33, t.printMode>>)

setPrintMode(t, mask) ==
  Bind([t EXCEPT !.printMode = BitOr(@, mask)], LAMBDA a :
  Bind(writePrintMode(a), LAMBDA b :
  adjustCharValues(b)))

unsetPrintMode(t, mask) ==
  Bind([t EXCEPT !.printMode = BitClear(@, mask)], LAMBDA a :
  Bind(writePrintMode(a), LAMBDA b :
  adjustCharValues(b)))

normal(t) == Bind([t EXCEPT !.printMode = 0], LAMBDA a : writePrintMode(a))

inverseOn(t) ==
  IF t.firmware >= 268 THEN writeBytes(t, <<ASCII_GS, 66, 1>>)
  ELSE setPrintMode(t, INVERSE_MASK)

inverseOff(t) ==
  IF t.firmware >= 268 THEN writeBytes(t, <<ASCII_GS, 66, 0>>)
  ELSE unsetPrintMode(t, INVERSE_MASK)

upsideDownOn(t) ==
  IF t.firmware >= 268 THEN writeBytes(t, <<ASCII_ESC, 123, 1>>)
  ELSE setPrintMode(t, UPDOWN_MASK)

upsideDownOff(t) ==
  IF t.firmware >= 268 THEN writeBytes(t, <<ASCII_ESC, 123, 0>>)
  ELSE unsetPrintMode(t, UPDOWN_MASK)

autoLineHeightOn(t) ==
  Bind([t EXCEPT !.autoLineHeight = TRUE], LAMBDA a : adjustCharValues(a))

autoLineHeightOff(t) ==
  Bind([t EXCEPT !.autoLineHeight = FALSE], LAMBDA a : adjustCharValues(a))

doubleHeightOn(t) == setPrintMode(t, DOUBLE_HEIGHT_MASK)

doubleHeightOff(t) == unsetPrintMode(t, DOUBLE_HEIGHT_MASK)

doubleWidthOn(t) == setPrintMode(t, DOUBLE_WIDTH_MASK)

doubleWidthOff(t) == unsetPrintMode(t, DOUBLE_WIDTH_MASK)

strikeOn(t) == setPrintMode(t, STRIKE_MASK)

strikeOff(t) == unsetPrintMode(t, STRIKE_MASK)

boldOn(t) == setPrintMode(t, BOLD_MASK)

boldOff(t) == unsetPrintMode(t, BOLD_MASK)

justify(t, value) ==
  LET v == toupper(value)
      pos == CASE v = 76 -> 0 [] v = 67 -> 1 [] v = 82 -> 2 [] OTHER -> 0
  IN writeBytes(t, <<ASCII_ESC, 97, pos>>)

setSize(t, value) ==
  LET v == toupper(value)
  IN CASE v = 77 -> Bind(doubleHeightOn(t), LAMBDA a : doubleWidthOff(a))
       [] v = 76 -> Bind(doubleHeightOn(t), LAMBDA a : doubleWidthOn(a))
       [] OTHER -> Bind(doubleWidthOff(t), LAMBDA a : doubleHeightOff(a))

setFont(t, font) ==
  LET f == IF font >= 65
           THEN LET u == toupper(font)
                    v == IF u > 69 THEN 65 ELSE u
                    w == IF v < 65 THEN 65 ELSE v
                IN w - 65
           ELSE (IF font > 4 THEN 0 ELSE font)
  IN Bind([t EXCEPT !.fontData = BitOr(BitAnd(@, 248), f)], LAMBDA a :
     adjustCharValues(a))

setLineHeight(t, val) ==
  LET v == IF val < 20 THEN 20 ELSE val
  IN Bind(autoLineHeightOff(t), LAMBDA a :
     Bind([a EXCEPT !.lineSpacing = v - 20], LAMBDA b :
     writeBytes(b, <<ASCII_ESC, 51, v>>)))

\* a setBarcodeHeight() that takes 0 as it comes
setBarcodeHeightUnclamped(t, val) ==
  Bind([t EXCEPT !.barcodeHeight = val], LAMBDA a :
  writeBytes(a, <<ASCII_GS, 104, val>>))

setBarcodeHeight(t, val) ==
  LET v == IF val < 1 THEN 1 ELSE val
  IN Bind([t EXCEPT !.barcodeHeight = v], LAMBDA a :
     writeBytes(a, <<ASCII_GS, 104, v>>))

underlineOn(t, weight) ==
  writeBytes(t, <<ASCII_ESC, 45, IF weight > 2 THEN 2 ELSE weight>>)

underlineOff(t) == writeBytes(t, <<ASCII_ESC, 45, 0>>)

setCharset(t, val) == writeBytes(t, <<ASCII_ESC, 82, IF val > 15 THEN 15 ELSE val>>)

setCodePage(t, val) == writeBytes(t, <<ASCII_ESC, 116, IF val > 47 THEN 47 ELSE val>>)

setCharSpacing(t, spacing) == writeBytes(t, <<ASCII_ESC, 32, spacing>>)

cancelKanjiMode(t) == writeBytes(t, <<ASCII_FS, 46>>)

online(t) == writeBytes(t, <<ASCII_ESC, 61, 1>>)

offline(t) == writeBytes(t, <<ASCII_ESC, 61, 0>>)

\* setCharset() and setCodePage() are called with their default argument 0
setDefault(t) ==
  Bind(online(t), LAMBDA a :
  Bind(justify(a, 76), LAMBDA b :
  Bind(inverseOff(b), LAMBDA c :
  Bind(doubleHeightOff(c), LAMBDA d :
  Bind(setLineHeight(d, 30), LAMBDA e :
  Bind(boldOff(e), LAMBDA f :
  Bind(underlineOff(f), LAMBDA g :
  Bind(setBarcodeHeight([g EXCEPT !.autoLineHeight = TRUE], 50), LAMBDA h :
  Bind(setSize([h EXCEPT !.fontData = 0], 115), LAMBDA i :
  Bind(setCharset(i, 0), LAMBDA j :
  Bind(setCodePage(j, 0), LAMBDA k :
  cancelKanjiMode(k))))))))))))

\* ------------------------------------------------------------------------
\* Paper movement
\* ------------------------------------------------------------------------
\* n passes of while (x--) write('\n');
RECURSIVE feedManually(_, _, _)
feedManually(t, x, n) ==
  IF n > 1 THEN Split(t, x, n, feedManually)
  ELSE IF n = 1 THEN write(t, ASCII_LF) ELSE t

feed(t, x) ==
  IF t.firmware >= 264
  THEN Bind(writeBytes(t, <<ASCII_ESC, 100, x>>), LAMBDA a :
       [timeoutSet(a, a.dotFeedTime * a.charHeight)
          EXCEPT !.prevByte = ASCII_LF, !.column = 0])
  ELSE feedManually(t, 0, x)

feedRows(t, rows) ==
  Bind(writeBytes(t, <<ASCII_ESC, 74, rows>>), LAMBDA a :
  [timeoutSet(a, rows * a.dotFeedTime) EXCEPT !.prevByte = ASCII_LF, !.column = 0])

flush(t) == writeBytes(t, <<ASCII_FF>>)

tab(t) ==
  Bind(writeBytes(t, <<ASCII_TAB>>), LAMBDA a :
  [a EXCEPT !.column = BitAnd(U8(a.column + 4), 252)])

sleepAfter(t, seconds) ==
  IF t.firmware >= 264
  THEN writeBytes(t, <<ASCII_ESC, 56, seconds, seconds \div 256>>)
  ELSE writeBytes(t, <<ASCII_ESC, 56, seconds>>)

sleep(t) == sleepAfter(t, 1)

testPage(t) ==
  Bind(writeBytes(t, <<ASCII_DC2, 84>>), LAMBDA a :
  timeoutSet(a, a.dotPrintTime * 24 * 26 + a.dotFeedTime * (6 * 26 + 30)))

\* println(F("Hello World!")) writes the text, then "\r\n"
test(t) ==
  Bind(writeAll(t, <<72, 101, 108, 108, 111, 32, 87, 111, 114, 108, 100, 33,
                     ASCII_CR, ASCII_LF>>), LAMBDA a :
  feed(a, 2))

setPrintDensity(t, density, breakTime) ==
  writeBytes(t, <<ASCII_DC2, 35, BitOr(U8(density * 32), breakTime)>>)

userCharacterSetOn(t) == writeBytes(t, <<ASCII_ESC, 37, 1>>)

userCharacterSetOff(t) == writeBytes(t, <<ASCII_ESC, 37, 0>>)

clearUserCharacter(t, charVal) == writeBytes(t, <<ASCII_ESC, 63, charVal>>)

\* passes x .. x + n - 1 of for (int x = 0; x < arySize; x++)
RECURSIVE userBytes(_, _, _, _)
userBytes(t, charBytes, x, n) ==
  IF n > 1 THEN Split(t, x, n, LAMBDA a, y, m : userBytes(a, charBytes, y, m))
  ELSE IF n = 1
       THEN Bind(timeoutWait(t), LAMBDA a : StreamWrite(a, charBytes[x + 1]))
       ELSE t

userDefinedCharacter(t, y_bytes, charCodeFrom, charCodeTo, charBytes) ==
  Bind(writeBytes(t, <<ASCII_ESC, 38, y_bytes, charCodeFrom, charCodeTo>>),
       LAMBDA a :
  Bind(charBytes, LAMBDA bs : userBytes(a, bs, 0, Len(bs))))

\* ------------------------------------------------------------------------
\* Barcodes
\* ------------------------------------------------------------------------
\* text[i] of a C string: the characters, then the NUL
CharAt(text, i) == IF i < Len(text) THEN text[i + 1] ELSE 0

\* passes i .. i + n - 1 of for (uint8_t i = 0; i < len; i++)
RECURSIVE barcodeChars(_, _, _, _)
barcodeChars(t, text, i, n) ==
  IF n > 1 THEN Split(t, i, n, LAMBDA a, y, m : barcodeChars(a, text, y, m))
  ELSE IF n = 1 THEN writeBytes(t, <<CharAt(text, i)>>) ELSE t

\* uint8_t i with do { writeBytes(c = text[i++]); } while (c): i counts
\* 0..255 and wraps to 0, so the loop reads text[0..255] only.  When none
\* of them is NUL the loop is back at i = 0 after 256 passes, with nothing
\* changed but the clock.
BarcodeWraps(text) == \A j \in 0..255 : CharAt(text, j) # 0

\* the statements of printBarcode() after the if / else
barcodeEnd(t) ==
  [timeoutSet(t, (t.barcodeHeight + 40) * t.dotPrintTime)
     EXCEPT !.prevByte = ASCII_LF]

\* the passes of the do loop from i = 0: up to and with the first NUL and
\* on to the end of printBarcode(), or 256 passes when text[0..255] holds
\* no NUL
barcodeLap(t, text) ==
  IF BarcodeWraps(text)
  THEN barcodeChars(t, text, 0, 256)
  ELSE Bind(CHOOSE i \in 0..255 :
              CharAt(text, i) = 0 /\ \A j \in 0..(i - 1) : CharAt(text, j) # 0,
            LAMBDA nul :
       Bind(barcodeChars(t, text, 0, nul + 1), LAMBDA a :
       barcodeEnd(a)))

\* printBarcode() of firmware >= 264 as a whole; of older firmware up to
\* the do loop, which runs in laps since it need not end
printBarcode(t, text, type) ==
  LET len == IF Len(text) > 255 THEN 255 ELSE Len(text)
  IN Bind(feed(t, 1), LAMBDA a :
     Bind(writeBytes(a, <<ASCII_GS, 72, 2>>), LAMBDA b :
     Bind(writeBytes(b, <<ASCII_GS, 119, 3>>), LAMBDA c :
     IF c.firmware >= 264
     THEN Bind(writeBytes(c, <<ASCII_GS, 107, U8(type + 65)>>), LAMBDA d :
          Bind(writeBytes(d, <<len>>), LAMBDA e :
          Bind(barcodeChars(e, text, 0, len), LAMBDA f :
          barcodeEnd(f))))
     ELSE writeBytes(c, <<ASCII_GS, 107, type>>))))

\* ------------------------------------------------------------------------
\* Status
\* ------------------------------------------------------------------------
\* The printer's answer arrives before poll number `poll` (0..9) of the
\* loop, or not within the ten polls (poll = 10).
\* getStatus() sending its request like any other command: the poll
\* property (C11) must tell this variant from the code
getStatusThrottled(t, statusPage, poll, answer) ==
  Bind(writeCmdBytes(t, 16, 4, statusPage, FALSE), LAMBDA a :
  IF poll < 10
  THEN [delay(a, 100 * poll) EXCEPT !.status = U8(answer)]
  ELSE [delay(a, 100 * 10) EXCEPT !.status = 255])

getStatus(t, statusPage, poll, answer) ==
  Bind(writeCmdBytes(t, 16, 4, statusPage, TRUE), LAMBDA a :
  IF poll < 10
  THEN [delay(a, 100 * poll) EXCEPT !.status = U8(answer)]
  ELSE [delay(a, 100 * 10) EXCEPT !.status = 255])

\* the paper test without the mask: the paper property (C10) must tell
\* this variant from the code
PaperPresentUnmasked(status) == ~(status = 96)

\* !((status & 0b01100000) == 96)
PaperPresent(status) == ~(BitAnd(status, 96) = 96)

hasPaper(t, poll, answer) ==
  Bind(getStatus(t, 4, poll, answer), LAMBDA a :
  [a EXCEPT !.paper = IF PaperPresent(U8(a.status)) THEN 1 ELSE 0])

setTimes(t, p, f) == [t EXCEPT !.dotPrintTime = p, !.dotFeedTime = f]

\* The value maxChunkHeight holds once the int val is assigned to it.  The
\* field is declared outside the source file; the specification declares
\* maxChunkHeightDots an integer, so the argument is stored as it comes.
StoredChunkHeight(val) == val

setMaxChunkHeight(t, val) == [t EXCEPT !.maxChunkHeight = StoredChunkHeight(val)]

\* ------------------------------------------------------------------------
\* Bitmaps
\* ------------------------------------------------------------------------
\* Byte number off of the pixel data (an in-memory array or the bytes a
\* stream delivers, in order); seed picks the picture.
BitmapByte(seed, off) == (seed + 7 * off) % 256

\* rowBytes, rowBytesClipped and chunkHeightLimit as both printBitmap()
\* overloads compute them; the loop variables start at 0.  t.bm holds the
\* locals of the call in progress: i is the array index of the in-memory
\* overload, pos the number of bytes read from the stream so far, hdrs the
\* chunks issued: the row count sent in each header and the rows streamed
\* after it.
bitmapLocals(t, w, h, seed, fromStream) ==
  LET rowBytes == (w + 7) \div 8
      rowBytesClipped == IF rowBytes >= 48 THEN 48 ELSE rowBytes
      l == 256 \div rowBytesClipped
      chunkHeightLimit ==
        IF t.dtrEnabled THEN 255
        ELSE IF l > t.maxChunkHeight THEN t.maxChunkHeight
             ELSE IF l < 1 THEN 1 ELSE l
  IN [t EXCEPT !.bm = [w |-> w, h |-> h, seed |-> seed, fromStream |-> fromStream,
                       rowBytes |-> rowBytes, rowBytesClipped |-> rowBytesClipped,
                       chunkHeightLimit |-> chunkHeightLimit,
                       rowStart |-> 0, i |-> 0, pos |-> 0, hdrs |-> <<>>,
                       header |-> <<>>]]

\* passes x .. x + n - 1 of for (x = 0; x < rowBytesClipped; x++, i++) of
\* the in-memory overload
RECURSIVE memRowBytes(_, _, _)
memRowBytes(t, x, n) ==
  IF n > 1 THEN Split(t, x, n, memRowBytes)
  ELSE IF n = 1
       THEN Bind(timeoutWait(t), LAMBDA a :
            [StreamWrite(a, BitmapByte(a.bm.seed, a.bm.i)) EXCEPT !.bm.i = @ + 1])
       ELSE t

\* passes y .. y + n - 1 of for (y = 0; y < chunkHeight; y++)
RECURSIVE memRows(_, _, _)
memRows(t, y, n) ==
  IF n > 1 THEN Split(t, y, n, memRows)
  ELSE IF n = 1
       THEN Bind(memRowBytes(t, 0, t.bm.rowBytesClipped), LAMBDA a :
            [a EXCEPT !.bm.i = @ + (a.bm.rowBytes - a.bm.rowBytesClipped)])
       ELSE t

\* while ((c = fromStream->read()) < 0);  the next byte of the source,
\* once it is there
streamRead(t) == [t EXCEPT !.bm.pos = @ + 1]

\* The bytes the source delivers, in order: the pixel data from offset 0,
\* and before it the bytes of b.header (the header of a bitmap file, when
\* the source is one) at the offsets -Len(b.header) .. -1.
SourceByte(b, off) ==
  IF off < 0 THEN b.header[Len(b.header) + off + 1] ELSE BitmapByte(b.seed, off)

\* passes x .. x + n - 1 of for (x = 0; x < rowBytesClipped; x++) of the
\* streaming overload
RECURSIVE streamRowBytes(_, _, _)
streamRowBytes(t, x, n) ==
  IF n > 1 THEN Split(t, x, n, streamRowBytes)
  ELSE IF n = 1
       THEN Bind(streamRead(t), LAMBDA a :
            Bind(timeoutWait(a), LAMBDA b :
            StreamWrite(b, SourceByte(t.bm, t.bm.pos))))
       ELSE t

\* the streaming overload without its discard loop: the transfer property
\* (C9) must tell this variant from the code
streamKeepTail(t, i, n) == t

\* n passes of for (i = rowBytes - rowBytesClipped; i > 0; i--)
RECURSIVE streamDiscard(_, _, _)
streamDiscard(t, i, n) ==
  IF n > 1 THEN Split(t, i, n, streamDiscard)
  ELSE IF n = 1 THEN streamRead(t) ELSE t

\* passes y .. y + n - 1 of for (y = 0; y < chunkHeight; y++)
RECURSIVE streamRows(_, _, _)
streamRows(t, y, n) ==
  IF n > 1 THEN Split(t, y, n, streamRows)
  ELSE IF n = 1
       THEN Bind(streamRowBytes(t, 0, t.bm.rowBytesClipped), LAMBDA a :
            streamDiscard(a, 0, a.bm.rowBytes - a.bm.rowBytesClipped))
       ELSE t

\* one pass of for (rowStart = 0; rowStart < h; rowStart += chunkHeightLimit)
bitmapChunk(t) ==
  Bind(IF t.bm.h - t.bm.rowStart > t.bm.chunkHeightLimit
       THEN t.bm.chunkHeightLimit ELSE t.bm.h - t.bm.rowStart,
       LAMBDA chunkHeight :
  Bind(writeBytes(t, <<ASCII_DC2, 42, chunkHeight, t.bm.rowBytesClipped>>),
       LAMBDA a :
  Bind(IF a.bm.fromStream THEN streamRows(a, 0, chunkHeight)
       ELSE memRows(a, 0, chunkHeight), LAMBDA b :
  [timeoutSet(b, chunkHeight * b.dotPrintTime) EXCEPT
     !.bm.rowStart = @ + b.bm.chunkHeightLimit,
     !.bm.hdrs = Append(@, [rows |-> U8(chunkHeight),
                            streamed |-> IF chunkHeight > 0
                                         THEN chunkHeight ELSE 0])])))

\* printBitmap(fromStream): four fromStream->read() calls in a row, none
\* of them in a loop.  ready is the number of bytes the source has
\* delivered when the call is made: a read() past them returns -1, which
\* is used as it comes ((uint8_t)-1 = 255 in tmp, -1 << 8 = -256 in the
\* sum, as gcc defines the shift).  The bytes of the header not taken here
\* are the first ones the loops of printBitmap(w, h, fromStream) take.
printBitmapFromStream(t, seed, header, ready) ==
  LET read(k) == IF k <= ready THEN header[k] ELSE -1
      width == U16(read(2) * 256 + U8(read(1)))
      height == U16(read(4) * 256 + U8(read(3)))
  IN [bitmapLocals(t, width, height, seed, TRUE) EXCEPT
        !.bm.header = header,
        !.bm.pos = (IF ready < 4 THEN ready ELSE 4) - 4]

\* after the loop
bitmapDone(t) == [t EXCEPT !.prevByte = ASCII_LF]

\* ------------------------------------------------------------------------
\* State
\* ------------------------------------------------------------------------
VARIABLES
  \* the fields of Adafruit_Thermal
  firmware, dtrPin, dtrEnabled, dotPrintTime, dotFeedTime, column, maxColumn,
  charWidth, charHeight, lineSpacing, barcodeHeight, printMode, fontData,
  autoLineHeight, prevByte, maxChunkHeight,
  \* resumeTime, as the time left until it when the last call returned
  \* (0 once it has passed)
  busyLeft,
  \* the transport: how long stream->write() takes, and how late the wait
  \* loop notices that the printer is ready
  latency, slack,
  \* "new" after the constructor, "bitmap" inside printBitmap(), "returned"
  \* when a call has returned, "idle" once the sketch has moved on; the
  \* number of calls made; the locals of printBitmap()
  pc, ops, bm,
  \* the last call: its name, its arguments (of the calls whose arguments
  \* are not all written to the printer as they are), the bytes it wrote,
  \* and what timeoutSet(), timeoutWait() and stream->write() did in it (see
  \* the call record)
  lastOp, args, tx, early, waited, elapsed, firstAt, lastAt, lastSet, due, shift,
  status, paper

fields == <<firmware, dtrPin, dtrEnabled, dotPrintTime, dotFeedTime, column,
            maxColumn, charWidth, charHeight, lineSpacing, barcodeHeight,
            printMode, fontData, autoLineHeight, prevByte, maxChunkHeight,
            busyLeft>>

vars == <<fields, latency, slack, pc, ops, bm, lastOp, args, tx, early, waited,
          elapsed, firstAt, lastAt, lastSet, due, shift, status, paper>>

\* values a field the constructor leaves unset may hold
UninitFill == {0, 255}

\* the constructor's dtr argument
DtrPins == {NO_DTR, 4}

\* a buffered hardware port, and a bit-banged port that blocks for a byte
Transports == {[latency |-> 0, slack |-> 0], [latency |-> 1042, slack |-> 4]}

\* firmware versions on both sides of the two thresholds (264, 268)
Firmwares == {263, 264, 268}

\* clock readings at which a call starts: far from the rollover, just
\* before it
NearRollover == 1500
Epochs == {0, ClockMod - NearRollover}

\* When a call is made: right after the last one, with the counter about to
\* roll over, or after the sketch has spent IdleLong elsewhere.
IdleLong == 30000000
CallTimes == {[epoch |-> ClockMod - NearRollover, idle |-> 0],
              [epoch |-> 0, idle |-> IdleLong]}

NoBitmap == [w |-> 0, h |-> 0, seed |-> 0, fromStream |-> FALSE, rowBytes |-> 0,
             rowBytesClipped |-> 0, chunkHeightLimit |-> 0, rowStart |-> 0,
             i |-> 0, pos |-> 0, hdrs |-> <<>>, header |-> <<>>]

\* The constructor sets stream, dtrPin and dtrEnabled.  printMode, fontData,
\* charWidth and autoLineHeight are first written by setPrintMode(),
\* setFont() or setDefault(), never by begin(): they start with whatever
\* the object's memory held.  Every other field is written by begin()
\* before it is read.
Init ==
  /\ dtrPin \in DtrPins
  /\ dtrEnabled = FALSE
  /\ \E fill \in UninitFill :
       /\ printMode = fill
       /\ fontData = fill
       /\ charWidth = fill
       /\ autoLineHeight = (fill # 0)
  /\ firmware = 0 /\ dotPrintTime = 0 /\ dotFeedTime = 0
  /\ column = 0 /\ maxColumn = 0 /\ charHeight = 0 /\ lineSpacing = 0
  /\ barcodeHeight = 0 /\ prevByte = 0 /\ maxChunkHeight = 0 /\ busyLeft = 0
  /\ \E port \in Transports : latency = port.latency /\ slack = port.slack
  /\ pc = "new" /\ ops = 0 /\ bm = NoBitmap
  /\ lastOp = "constructor" /\ args = <<>> /\ tx = <<>> /\ early = FALSE /\ waited = FALSE
  /\ elapsed = 0 /\ firstAt = -1 /\ lastAt = -1 /\ lastSet = -1 /\ due = 0
  /\ shift = 0 /\ status = -1 /\ paper = -1

\* the call record of a call made `idle` after the last one returned, at
\* clock reading epoch
Call(epoch, idle) ==
  [firmware |-> firmware, dtrPin |-> dtrPin, dtrEnabled |-> dtrEnabled,
   dotPrintTime |-> dotPrintTime, dotFeedTime |-> dotFeedTime,
   column |-> column, maxColumn |-> maxColumn, charWidth |-> charWidth,
   charHeight |-> charHeight, lineSpacing |-> lineSpacing,
   barcodeHeight |-> barcodeHeight, printMode |-> printMode,
   fontData |-> fontData, autoLineHeight |-> autoLineHeight,
   prevByte |-> prevByte, maxChunkHeight |-> maxChunkHeight,
   resumeTime |-> ClockAdd(epoch, busyLeft - idle),
   resume0 |-> ClockAdd(epoch, busyLeft - idle),
   now |-> epoch, el |-> 0, args |-> <<>>, latency |-> latency, slack |-> slack,
   tx |-> <<>>, early |-> FALSE, waited |-> FALSE, firstAt |-> -1,
   lastAt |-> -1, lastSet |-> -1, status |-> -1, paper |-> -1, bm |-> bm]

\* the call record of the next step of the call in progress
Resume(epoch) ==
  [Call(epoch, 0) EXCEPT
     !.resumeTime = ClockAdd(epoch, due),
     !.resume0 = ClockAdd(epoch, due - shift),
     !.el = elapsed, !.args = args, !.tx = tx, !.early = early, !.waited = waited,
     !.firstAt = firstAt, !.lastAt = lastAt, !.lastSet = lastSet]

\* the state a call (or a step of it) leaves
Leave(v, name, next) ==
  \E t \in {v} :
  /\ firmware' = t.firmware /\ dtrPin' = t.dtrPin /\ dtrEnabled' = t.dtrEnabled
  /\ dotPrintTime' = t.dotPrintTime /\ dotFeedTime' = t.dotFeedTime
  /\ column' = t.column /\ maxColumn' = t.maxColumn
  /\ charWidth' = t.charWidth /\ charHeight' = t.charHeight
  /\ lineSpacing' = t.lineSpacing /\ barcodeHeight' = t.barcodeHeight
  /\ printMode' = t.printMode /\ fontData' = t.fontData
  /\ autoLineHeight' = t.autoLineHeight /\ prevByte' = t.prevByte
  /\ maxChunkHeight' = t.maxChunkHeight
  /\ busyLeft' = (IF SignedDiff(t.resumeTime, t.now) > 0
                  THEN SignedDiff(t.resumeTime, t.now) ELSE 0)
  /\ due' = SignedDiff(t.resumeTime, t.now)
  /\ shift' = SignedDiff(t.resumeTime, t.resume0)
  /\ bm' = t.bm /\ pc' = next /\ lastOp' = name /\ args' = t.args
  /\ tx' = t.tx /\ early' = t.early /\ waited' = t.waited /\ elapsed' = t.el
  /\ firstAt' = t.firstAt /\ lastAt' = t.lastAt /\ lastSet' = t.lastSet
  /\ status' = t.status /\ paper' = t.paper
  /\ UNCHANGED <<latency, slack>>

\* the call record t of a call with the arguments as
Passing(t, as) == [t EXCEPT !.args = as]

\* the sketch calls a method: Op is the method with its arguments
Invoke(name, Op(_)) ==
  /\ pc = "idle"
  /\ ops' = ops + 1
  /\ \E at \in CallTimes :
       \E t \in {Call(at.epoch, at.idle)} : Leave(Op(t), name, "returned")

\* The sketch moves on.  What the next call does depends on the object's
\* fields alone: the record of the last call is dropped.
Continue ==
  /\ pc = "returned"
  /\ pc' = "idle"
  /\ lastOp' = "none" /\ args' = <<>> /\ tx' = <<>> /\ early' = FALSE /\ waited' = FALSE
  /\ elapsed' = 0 /\ firstAt' = -1 /\ lastAt' = -1 /\ lastSet' = -1
  /\ due' = busyLeft /\ shift' = 0 /\ status' = -1 /\ paper' = -1
  /\ bm' = NoBitmap
  /\ UNCHANGED <<fields, latency, slack, ops>>

\* ------------------------------------------------------------------------
\* Arguments the sketch passes
\* ------------------------------------------------------------------------
\* a printable character, newline, carriage return
Chars == {65, ASCII_LF, ASCII_CR}

\* numeric and letter font arguments, in and out of range
FontArgs == {0, 2, 4, 5, 66, 101, 70}

\* 's', 'M', 'L'
SizeArgs == {115, 77, 76}

LineHeights == {10, 30, 50}

RowCounts == {0, 1, 30}

\* status bytes the printer may answer: paper present, paper out (with and
\* without the fixed bits of the answer), one sensor bit only, all ones
StatusBytes == {18, 96, 114, 126, 50, 255}

\* the poll of getStatus() that would find the answer: the first, a later
\* one, the last (9), and two that the loop does not reach
Polls == {0, 3, 9, 10, 12}

DotTimes == {[p |-> 30000, f |-> 2100], [p |-> 20000, f |-> 1500]}

ChunkHeights == {0, 1, 3, 255}

\* bitmap widths: rows of 1, 2, 48 and 50 bytes
Widths == {8, 9, 384, 400}

Seeds == {3}

BarcodeTexts == {<<>>, <<49, 50>>}

\* a text of n digits
Digits(n) == [k \in 1..n |-> 48 + (k % 10)]

\* texts of the longest length that fits the length byte, and longer
LongTexts == {Digits(2), Digits(255), Digits(256), Digits(300)}

\* bitmap heights: every height up to MaxRows, and two full chunks of a
\* bitmap of full width
Heights == 0..MaxRows \cup {10}

\* lengths of a print(): one character, and runs that end just before, at
\* and after the right margin of the default font
RunLengths == {1, MaxChars - 2, MaxChars - 1, MaxChars}

\* ------------------------------------------------------------------------
\* Calls
\* ------------------------------------------------------------------------
Begin(versions) ==
  /\ pc = "new"
  /\ ops' = ops + 1
  /\ \E version \in versions, epoch \in Epochs :
       \E t \in {Call(epoch, 0)} : Leave(begin(t, version), "begin", "returned")

Write == \E c \in Chars : Invoke("write", LAMBDA t : write(t, c))

\* print() of n printable characters
WriteChars(lengths) ==
  \E n \in lengths :
    Invoke("print", LAMBDA t : writeAll(t, [k \in 1..n |-> 65]))

Tab == Invoke("tab", LAMBDA t : tab(t))

Feed ==
  \E x \in 0..MaxFeed :
    Invoke("feed", LAMBDA t : Bind(Passing(t, <<x>>), LAMBDA u : feed(u, x)))

FeedRows == \E rows \in RowCounts : Invoke("feedRows", LAMBDA t : feedRows(t, rows))

SetFont(fonts) ==
  \E font \in fonts :
    Invoke("setFont",
           LAMBDA t : Bind(Passing(t, <<font>>), LAMBDA u : setFont(u, font)))

SetSize == \E value \in SizeArgs : Invoke("setSize", LAMBDA t : setSize(t, value))

DoubleHeightOn == Invoke("doubleHeightOn", LAMBDA t : doubleHeightOn(t))

DoubleHeightOff == Invoke("doubleHeightOff", LAMBDA t : doubleHeightOff(t))

DoubleWidthOn == Invoke("doubleWidthOn", LAMBDA t : doubleWidthOn(t))

DoubleWidthOff == Invoke("doubleWidthOff", LAMBDA t : doubleWidthOff(t))

BoldOn == Invoke("boldOn", LAMBDA t : boldOn(t))

BoldOff == Invoke("boldOff", LAMBDA t : boldOff(t))

StrikeOn == Invoke("strikeOn", LAMBDA t : strikeOn(t))

StrikeOff == Invoke("strikeOff", LAMBDA t : strikeOff(t))

InverseOn == Invoke("inverseOn", LAMBDA t : inverseOn(t))

InverseOff == Invoke("inverseOff", LAMBDA t : inverseOff(t))

UpsideDownOn == Invoke("upsideDownOn", LAMBDA t : upsideDownOn(t))

UpsideDownOff == Invoke("upsideDownOff", LAMBDA t : upsideDownOff(t))

Normal == Invoke("normal", LAMBDA t : normal(t))

Reset == Invoke("reset", LAMBDA t : reset(t))

SetDefault == Invoke("setDefault", LAMBDA t : setDefault(t))

SetLineHeight ==
  \E val \in LineHeights : Invoke("setLineHeight", LAMBDA t : setLineHeight(t, val))

AutoLineHeightOn == Invoke("autoLineHeightOn", LAMBDA t : autoLineHeightOn(t))

AutoLineHeightOff == Invoke("autoLineHeightOff", LAMBDA t : autoLineHeightOff(t))

SetBarcodeHeight ==
  \E val \in {0, 2, 50, 255} :
    Invoke("setBarcodeHeight",
           LAMBDA t : Bind(Passing(t, <<val>>), LAMBDA u : setBarcodeHeight(u, val)))

PrintBarcode(texts) ==
  /\ pc = "idle"
  /\ ops' = ops + 1
  /\ \E text \in texts, at \in CallTimes :
       \E t \in {Passing(Call(at.epoch, at.idle), <<text>>)} :
         Leave(printBarcode(t, text, 4), "printBarcode",
               IF firmware >= 264 THEN "returned" ELSE "barcode")

\* one lap of the do loop of printBarcode()
BarcodeLap ==
  /\ pc = "barcode"
  /\ Len(tx) \div 256 < MaxLaps
  /\ UNCHANGED ops
  /\ \E epoch \in Epochs :
       \E t \in {Resume(epoch)} :
         Leave(barcodeLap(t, args[1]), lastOp,
               IF BarcodeWraps(args[1]) THEN "barcode" ELSE "returned")

UserDefinedCharacter ==
  \E n \in 0..MaxUserBytes :
    Invoke("userDefinedCharacter",
           LAMBDA t : userDefinedCharacter(t, 3, 32, 32, [k \in 1..n |-> 12 + k]))

GetStatus ==
  \E page \in {1, 4}, poll \in Polls, answer \in StatusBytes :
    Invoke("getStatus",
           LAMBDA t : Bind(Passing(t, <<page, poll, answer>>),
                           LAMBDA u : getStatus(u, page, poll, answer)))

HasPaper(answers) ==
  \E poll \in Polls, answer \in answers :
    Invoke("hasPaper",
           LAMBDA t : Bind(Passing(t, <<4, poll, answer>>),
                           LAMBDA u : hasPaper(u, poll, answer)))

Wake == Invoke("wake", LAMBDA t : wake(t))

Sleep == Invoke("sleep", LAMBDA t : sleep(t))

SleepAfter == Invoke("sleepAfter", LAMBDA t : sleepAfter(t, 300))

SetTimes ==
  \E d \in DotTimes : Invoke("setTimes", LAMBDA t : setTimes(t, d.p, d.f))

SetMaxChunkHeight(vals) ==
  \E val \in vals :
    Invoke("setMaxChunkHeight", LAMBDA t : setMaxChunkHeight(t, val))

Justify == \E value \in {76, 99, 82} : Invoke("justify", LAMBDA t : justify(t, value))

UnderlineOn ==
  \E weight \in {0, 1, 2, 3, 255} :
    Invoke("underlineOn",
           LAMBDA t : Bind(Passing(t, <<weight>>), LAMBDA u : underlineOn(u, weight)))

UnderlineOff == Invoke("underlineOff", LAMBDA t : underlineOff(t))

SetCharset ==
  \E val \in {0, 15, 16, 255} :
    Invoke("setCharset",
           LAMBDA t : Bind(Passing(t, <<val>>), LAMBDA u : setCharset(u, val)))

SetCodePage ==
  \E val \in {0, 47, 48, 255} :
    Invoke("setCodePage",
           LAMBDA t : Bind(Passing(t, <<val>>), LAMBDA u : setCodePage(u, val)))

SetCharSpacing == Invoke("setCharSpacing", LAMBDA t : setCharSpacing(t, 2))

SetPrintDensity == Invoke("setPrintDensity", LAMBDA t : setPrintDensity(t, 2, 10))

SetHeatConfig == Invoke("setHeatConfig", LAMBDA t : setHeatConfig(t, 11, 120, 40))

Flush == Invoke("flush", LAMBDA t : flush(t))

Online == Invoke("online", LAMBDA t : online(t))

Offline == Invoke("offline", LAMBDA t : offline(t))

UserCharacterSetOn == Invoke("userCharacterSetOn", LAMBDA t : userCharacterSetOn(t))

UserCharacterSetOff == Invoke("userCharacterSetOff", LAMBDA t : userCharacterSetOff(t))

ClearUserCharacter == Invoke("clearUserCharacter", LAMBDA t : clearUserCharacter(t, 32))

CancelKanjiMode == Invoke("cancelKanjiMode", LAMBDA t : cancelKanjiMode(t))

TestPage == Invoke("testPage", LAMBDA t : testPage(t))

Test == Invoke("test", LAMBDA t : test(t))

\* printBitmap(w, h, bitmap, fromProgMem) / printBitmap(w, h, fromStream)
\* is entered: the locals are set up.  The loop then runs one chunk per
\* step, since it need not end.
PrintBitmap(ws, hs) ==
  /\ pc = "idle"
  /\ ops' = ops + 1
  /\ \E w \in ws, h \in hs, seed \in Seeds, fromStream \in BOOLEAN,
        at \in CallTimes :
       \E t \in {Call(at.epoch, at.idle)} :
         Leave(bitmapLocals(t, w, h, seed, fromStream),
               IF fromStream THEN "printBitmapStream" ELSE "printBitmap", "bitmap")

\* little-endian headers of bitmaps of 8 x 2 and of 9 x 1
Headers == {<<8, 0, 2, 0>>, <<9, 0, 1, 0>>}

\* how many header bytes have arrived when printBitmap(fromStream) is
\* called: all four, or not yet all
Arrived == {2, 3, 4}

PrintBitmapFromStream ==
  /\ pc = "idle"
  /\ ops' = ops + 1
  /\ \E header \in Headers, ready \in Arrived, seed \in Seeds, at \in CallTimes :
       \E t \in {Passing(Call(at.epoch, at.idle), <<ready, header>>)} :
         Leave(printBitmapFromStream(t, seed, header, ready),
               "printBitmapFromStream", "bitmap")

BitmapChunk ==
  /\ pc = "bitmap"
  /\ bm.rowStart < bm.h
  /\ Len(bm.hdrs) < MaxChunks
  /\ UNCHANGED ops
  /\ \E epoch \in Epochs :
       \E t \in {Resume(epoch)} : Leave(bitmapChunk(t), lastOp, "bitmap")

BitmapReturn ==
  /\ pc = "bitmap"
  /\ ~(bm.rowStart < bm.h)
  /\ UNCHANGED ops
  /\ \E epoch \in Epochs :
       \E t \in {Resume(epoch)} : Leave(bitmapDone(t), lastOp, "returned")

\* clock readings at which timeoutSet() is called: far from the rollover,
\* NearRollover before it, and at the last reading before it
MarkTimes == {0, ClockMod - NearRollover, ClockMod - 1}

\* arguments of timeoutSet(): none, one byte, durations that end just
\* before, at and just after the rollover, the cold-boot time, and the
\* longest one that fits in a long
Durations == {0, 1, BYTE_TIME, NearRollover - 1, NearRollover, NearRollover + 1,
              500000, (ClockMod \div 2) - 1}

\* time between timeoutSet(x) and the next timeoutWait(): none, just
\* short of x, x, just past x, the longest time past x for which
\* micros() - resumeTime fits in a long, and the shortest for which it
\* does not
Gaps(x) == {0, x, x + 1, x + (ClockMod \div 2) - 1, x + (ClockMod \div 2)}
             \cup (IF x > 0 THEN {x - 1} ELSE {})

\* timeoutSet(x) at clock reading m, and the next timeoutWait() g
\* microseconds later, as any two operations of the driver run them; the
\* handshake is off, as the constructor leaves it
MarkThenWait ==
  /\ pc = "new"
  /\ ops' = ops + 1
  /\ \E m \in MarkTimes, x \in Durations :
       \E g \in Gaps(x) :
         \E t \in {Passing(Call(m, 0), <<m, x, g>>)} :
           Leave(Bind(timeoutSet(t, x), LAMBDA a :
                 Bind(Elapse(a, g), LAMBDA b :
                 timeoutWait(b))),
                 "timeoutWait", "returned")

\* ------------------------------------------------------------------------
\* Specifications
\* ------------------------------------------------------------------------
\* every public method, in sessions of at most MaxOps calls
Next ==
  \/ ops < MaxOps /\ Begin(Firmwares)
  \/ ops < MaxOps /\ Write
  \/ ops < MaxOps /\ WriteChars(RunLengths)
  \/ ops < MaxOps /\ Tab
  \/ ops < MaxOps /\ Feed
  \/ ops < MaxOps /\ FeedRows
  \/ ops < MaxOps /\ SetFont(FontArgs)
  \/ ops < MaxOps /\ SetSize
  \/ ops < MaxOps /\ DoubleHeightOn
  \/ ops < MaxOps /\ DoubleHeightOff
  \/ ops < MaxOps /\ DoubleWidthOn
  \/ ops < MaxOps /\ DoubleWidthOff
  \/ ops < MaxOps /\ BoldOn
  \/ ops < MaxOps /\ BoldOff
  \/ ops < MaxOps /\ StrikeOn
  \/ ops < MaxOps /\ StrikeOff
  \/ ops < MaxOps /\ InverseOn
  \/ ops < MaxOps /\ InverseOff
  \/ ops < MaxOps /\ UpsideDownOn
  \/ ops < MaxOps /\ UpsideDownOff
  \/ ops < MaxOps /\ Normal
  \/ ops < MaxOps /\ Reset
  \/ ops < MaxOps /\ SetDefault
  \/ ops < MaxOps /\ SetLineHeight
  \/ ops < MaxOps /\ AutoLineHeightOn
  \/ ops < MaxOps /\ AutoLineHeightOff
  \/ ops < MaxOps /\ SetBarcodeHeight
  \/ ops < MaxOps /\ PrintBarcode(BarcodeTexts)
  \/ BarcodeLap
  \/ ops < MaxOps /\ UserDefinedCharacter
  \/ ops < MaxOps /\ GetStatus
  \/ ops < MaxOps /\ HasPaper(StatusBytes)
  \/ ops < MaxOps /\ Wake
  \/ ops < MaxOps /\ Sleep
  \/ ops < MaxOps /\ SleepAfter
  \/ ops < MaxOps /\ SetTimes
  \/ ops < MaxOps /\ SetMaxChunkHeight(ChunkHeights)
  \/ ops < MaxOps /\ Justify
  \/ ops < MaxOps /\ UnderlineOn
  \/ ops < MaxOps /\ UnderlineOff
  \/ ops < MaxOps /\ SetCharset
  \/ ops < MaxOps /\ SetCodePage
  \/ ops < MaxOps /\ SetCharSpacing
  \/ ops < MaxOps /\ SetPrintDensity
  \/ ops < MaxOps /\ SetHeatConfig
  \/ ops < MaxOps /\ Flush
  \/ ops < MaxOps /\ Online
  \/ ops < MaxOps /\ Offline
  \/ ops < MaxOps /\ UserCharacterSetOn
  \/ ops < MaxOps /\ UserCharacterSetOff
  \/ ops < MaxOps /\ ClearUserCharacter
  \/ ops < MaxOps /\ CancelKanjiMode
  \/ ops < MaxOps /\ TestPage
  \/ ops < MaxOps /\ Test
  \/ ops < MaxOps /\ PrintBitmap({8, 400}, {0, 1, 6})
  \/ BitmapChunk
  \/ BitmapReturn
  \/ Continue

Spec == Init /\ [][Next]_vars

\* text and the formatting that decides its metrics, in sessions of at most
\* MaxTextOps calls
NextText ==
  \/ ops < MaxTextOps /\ Begin({263, 268})
  \/ ops < MaxTextOps /\ Write
  \/ ops < MaxTextOps /\ WriteChars(RunLengths)
  \/ ops < MaxTextOps /\ Tab
  \/ ops < MaxTextOps /\ Feed
  \/ ops < MaxTextOps /\ SetFont({2, 69})
  \/ ops < MaxTextOps /\ SetSize
  \/ ops < MaxTextOps /\ Normal
  \/ ops < MaxTextOps /\ Reset
  \/ ops < MaxTextOps /\ SetLineHeight
  \/ ops < MaxTextOps /\ SetTimes
  \/ Continue

SpecText == Init /\ [][NextText]_vars

\* every font under every combination of the style flags, in sessions of
\* at most MaxFormatOps calls
NextFormat ==
  \/ ops < MaxFormatOps /\ Begin({263, 268})
  \/ ops < MaxFormatOps /\ SetFont({0, 1, 2, 3, 4, 67})
  \/ ops < MaxFormatOps /\ DoubleHeightOn
  \/ ops < MaxFormatOps /\ DoubleHeightOff
  \/ ops < MaxFormatOps /\ DoubleWidthOn
  \/ ops < MaxFormatOps /\ DoubleWidthOff
  \/ ops < MaxFormatOps /\ BoldOn
  \/ ops < MaxFormatOps /\ InverseOff
  \/ ops < MaxFormatOps /\ Normal
  \/ Continue

SpecFormat == Init /\ [][NextFormat]_vars

\* the calls that clamp their argument, and the barcode that uses the
\* stored height, in sessions of at most MaxClampOps calls
NextClamp ==
  \/ ops < MaxClampOps /\ Begin({263, 268})
  \/ ops < MaxClampOps /\ UnderlineOn
  \/ ops < MaxClampOps /\ SetCharset
  \/ ops < MaxClampOps /\ SetCodePage
  \/ ops < MaxClampOps /\ SetBarcodeHeight
  \/ ops < MaxClampOps /\ PrintBarcode(BarcodeTexts)
  \/ BarcodeLap
  \/ Continue

SpecClamp == Init /\ [][NextClamp]_vars

\* bitmaps of every size, after any setMaxChunkHeight()
NextBitmap ==
  \/ ops < MaxBitmapOps /\ Begin({268})
  \/ ops < MaxBitmapOps /\ SetMaxChunkHeight(ChunkHeights)
  \/ ops < MaxBitmapOps /\ PrintBitmap(Widths, Heights)
  \/ BitmapChunk
  \/ BitmapReturn
  \/ Continue

SpecBitmap == Init /\ [][NextBitmap]_vars

\* barcodes of short and long texts, on both firmware paths
NextBarcode ==
  \/ ops < MaxOps /\ Begin({263, 268})
  \/ ops < MaxOps /\ PrintBarcode(LongTexts)
  \/ BarcodeLap
  \/ Continue

SpecBarcode == Init /\ [][NextBarcode]_vars

\* tall bitmaps of one and two bytes a row, under chunk heights on both
\* sides of 256
NextChunk ==
  \/ ops < MaxBitmapOps /\ Begin({268})
  \/ ops < MaxBitmapOps /\ SetMaxChunkHeight({1, 255, 256, 300})
  \/ ops < MaxBitmapOps /\ PrintBitmap({8, 9}, {1, 255, 256, 257})
  \/ BitmapChunk
  \/ BitmapReturn
  \/ Continue

SpecChunk == Init /\ [][NextChunk]_vars

\* short bitmaps, empty ones included, after setMaxChunkHeight() of a
\* negative number, of zero and of small positive numbers
NextLoop ==
  \/ ops < MaxBitmapOps /\ Begin({268})
  \/ ops < MaxBitmapOps /\ SetMaxChunkHeight({-1, 0, 1, 2})
  \/ ops < MaxBitmapOps /\ PrintBitmap({1, 8, 400}, {0, 1, 3})
  \/ BitmapChunk
  \/ BitmapReturn
  \/ Continue

SpecLoop == Init /\ [][NextLoop]_vars

\* bitmap files read from a source that may not have delivered the header
NextHeader ==
  \/ ops < MaxHeaderOps /\ Begin({268})
  \/ ops < MaxHeaderOps /\ PrintBitmapFromStream
  \/ BitmapChunk
  \/ BitmapReturn
  \/ Continue

SpecHeader == Init /\ [][NextHeader]_vars

\* text, and the calls that end a line and set a long or a short deadline,
\* in sessions of at most MaxDeadlineOps calls
NextDeadline ==
  \/ ops < MaxDeadlineOps /\ Begin({263, 268})
  \/ ops < MaxDeadlineOps /\ Write
  \/ ops < MaxDeadlineOps /\ WriteChars({MaxChars - 1})
  \/ ops < MaxDeadlineOps /\ Reset
  \/ ops < MaxDeadlineOps /\ Feed
  \/ ops < MaxDeadlineOps /\ FeedRows
  \/ ops < MaxDeadlineOps /\ Wake
  \/ ops < MaxDeadlineOps /\ HasPaper({18})
  \/ ops < MaxDeadlineOps /\ PrintBarcode(BarcodeTexts)
  \/ ops < MaxDeadlineOps /\ PrintBitmap({8}, {1})
  \/ BarcodeLap
  \/ BitmapChunk
  \/ BitmapReturn
  \/ Continue

SpecDeadline == Init /\ [][NextDeadline]_vars

\* the paper query, for every answer of the printer
NextStatus ==
  \/ ops < MaxOps /\ Begin(Firmwares)
  \/ ops < MaxOps /\ HasPaper(0..255)
  \/ Continue

SpecStatus == Init /\ [][NextStatus]_vars

\* the throttle on its own: one timeoutSet() and the timeoutWait() after
\* it, for every duration and every time in between
NextThrottle ==
  \/ MarkThenWait
  \/ Continue

SpecThrottle == Init /\ [][NextThrottle]_vars

\* ------------------------------------------------------------------------
\* Properties
\* ------------------------------------------------------------------------
Min(a, b) == IF a < b THEN a ELSE b

\* --- C1 --------------------------------------------------------------
\* C1: whenever an operation has returned, 0 <= column < maxColumn.
C1_ColumnInsideLine ==
  pc = "returned" => (0 <= column /\ column < maxColumn)

\* C1: an operation has returned with the column beyond maxColumn, where
\* the wrap test of write() (column == maxColumn) can no longer see it.
C1_ColumnPastMargin ==
  /\ pc = "returned"
  /\ lastOp = "setFont"
  /\ column > maxColumn

\* --- C2 --------------------------------------------------------------
\* C2: a print() of k printable characters that starts at column 0 ends
\* with column = k modulo maxColumn, and never with column = maxColumn.
C2_ColumnCountsModulo ==
  [][(pc = "idle" /\ column = 0 /\ pc' = "returned" /\ lastOp' = "print")
       => (/\ maxColumn' = maxColumn
           /\ column' = Len(tx') % maxColumn
           /\ column' # maxColumn)]_vars

\* C2: a print() of exactly maxColumn characters from column 0 has returned
\* and the column equals maxColumn.
C2_ColumnAtMargin ==
  /\ pc = "returned"
  /\ lastOp = "print"
  /\ Len(tx) = maxColumn
  /\ column = maxColumn

\* --- C3 --------------------------------------------------------------
StatusOps == {"getStatus", "hasPaper"}

\* C3: without the handshake line, no byte other than those of a status
\* request is handed to the transport before resumeTime has passed.
C3_NoByteBeforeDeadline ==
  lastOp \notin StatusOps => ~early

\* C3: a call made while the deadline of the one before it was still
\* pending has waited it out and then written its bytes.
C3_WaitedThenWrote ==
  /\ pc = "returned"
  /\ ~dtrEnabled
  /\ lastOp = "userDefinedCharacter"
  /\ waited
  /\ Len(tx) = 5 + MaxUserBytes
  /\ ~early

\* --- C4 --------------------------------------------------------------
\* the operations that are one writeBytes(), the status request, and the
\* user-defined-character upload
ByteTimedOps ==
  {"justify", "underlineOn", "underlineOff", "setCharset", "setCodePage",
   "setCharSpacing", "cancelKanjiMode", "online", "offline",
   "setBarcodeHeight", "normal", "flush", "tab", "sleepAfter", "sleep",
   "setPrintDensity", "userCharacterSetOn", "userCharacterSetOff",
   "clearUserCharacter", "getStatus", "hasPaper", "userDefinedCharacter"}

\* C4: without the handshake line, when such an operation that wrote N
\* bytes returns, resumeTime is at least N * BYTE_TIME after the time its
\* last byte was written, and BYTE_TIME is 1146 microseconds.
C4_DeadlineCoversBytes ==
  (pc = "returned" /\ ~dtrEnabled /\ lastOp \in ByteTimedOps /\ tx # <<>>)
    => (/\ BYTE_TIME = 1146
        /\ due + (elapsed - lastAt) >= Len(tx) * BYTE_TIME)

\* C4: an upload of a header and one or more data bytes has returned with
\* resumeTime not after the time the last data byte was written.
C4_UploadLeavesNoDeadline ==
  /\ pc = "returned"
  /\ ~dtrEnabled
  /\ lastOp = "userDefinedCharacter"
  /\ Len(tx) > 5
  /\ due + (elapsed - lastAt) <= 0

\* --- C5 --------------------------------------------------------------
\* C5: begin() writes its first byte no sooner than 500000 microseconds
\* after it was called.
C5_ColdBootDelay ==
  (pc = "returned" /\ lastOp = "begin") => firstAt >= 500000

\* C5: begin() has returned and its first byte went out the moment it was
\* called.
C5_FirstByteAtOnce ==
  /\ pc = "returned"
  /\ lastOp = "begin"
  /\ firstAt = 0

\* --- C6 --------------------------------------------------------------
\* the per-font table: fonts A..E are 12x24, 9x24, 9x17, 8x16, 16x16
TableWidth == <<12, 9, 9, 8, 16>>

TableHeight == <<24, 24, 17, 16, 16>>

FontId == LET f == fontData % 8 IN IF f > 4 THEN 0 ELSE f

DoubleWidth == (printMode \div 32) % 2 = 1

DoubleHeight == (printMode \div 16) % 2 = 1

MetricsWidth == TableWidth[FontId + 1] * (IF DoubleWidth THEN 2 ELSE 1)

MetricsHeight == TableHeight[FontId + 1] * (IF DoubleHeight THEN 2 ELSE 1)

\* C6: when write() has written a text byte, charWidth, charHeight and
\* maxColumn are the table values of the current font and double-size
\* flags.
C6_MetricsMatchAtText ==
  (pc = "returned" /\ lastOp \in {"write", "print"} /\ tx # <<>>)
    => (/\ charWidth = MetricsWidth
        /\ charHeight = MetricsHeight
        /\ maxColumn = 384 \div MetricsWidth)

\* C6: normal() has cleared the double-height flag and returned with
\* charHeight still doubled: the metrics the next text byte is written
\* under.
C6_NormalKeepsMetrics ==
  /\ pc = "returned"
  /\ lastOp = "normal"
  /\ printMode = 0
  /\ charHeight = 2 * TableHeight[FontId + 1]

\* --- C7 --------------------------------------------------------------
\* C7: a write() of a retained character c sets the deadline BYTE_TIME
\* ahead, plus a line charge when c is a newline or the column had reached
\* maxColumn: (charHeight + lineSpacing) * dotFeedTime after a newline,
\* charHeight * dotPrintTime + lineSpacing * dotFeedTime otherwise; it then
\* leaves column = 0 and prevByte = newline.  Any other character leaves
\* the column one higher.
C7_WriteCharges ==
  [][(pc = "idle" /\ pc' = "returned" /\ lastOp' = "write" /\ tx' # <<>>)
       => LET c == tx'[1]
              wrap == (c = 10) \/ (column = maxColumn)
              line == IF prevByte = 10
                      THEN (charHeight + lineSpacing) * dotFeedTime
                      ELSE charHeight * dotPrintTime + lineSpacing * dotFeedTime
              d == 1146 + (IF wrap THEN line ELSE 0)
          IN /\ lastSet' = d
             /\ ~dtrEnabled => due' = d
             /\ wrap => (column' = 0 /\ prevByte' = 10)
             /\ ~wrap => column' = column + 1]_vars

\* C7: after begin() and some text, a newline has been written and charged
\* as a text line of the default font: 24 * 30000 + 6 * 2100 + 1146.
C7_TextLineCharged ==
  /\ pc = "returned"
  /\ lastOp = "write"
  /\ tx = <<10>>
  /\ ~dtrEnabled
  /\ due = 24 * 30000 + 6 * 2100 + 1146
  /\ column = 0
  /\ prevByte = 10

\* --- C8 --------------------------------------------------------------
\* C8: every chunk header of a bitmap of width >= 1 and height >= 1 carries
\* a row count between 1 and min(maxChunkHeight, 256 / rowBytesClipped)
\* without the handshake line, and of at most 255 with it.
C8_ChunkHeightInRange ==
  (pc \in {"bitmap", "returned"} /\ bm.w >= 1 /\ bm.h >= 1)
    => \A k \in 1..Len(bm.hdrs) :
         IF dtrEnabled
         THEN bm.hdrs[k].rows <= 255
         ELSE /\ 1 <= bm.hdrs[k].rows
              /\ bm.hdrs[k].rows <=
                   Min(maxChunkHeight, 256 \div Min((bm.w + 7) \div 8, 48))

\* C8: after setMaxChunkHeight(0), a bitmap of one row is on its second
\* chunk header, both with row count 0 and no row sent.
C8_EmptyChunksRepeat ==
  /\ pc = "bitmap"
  /\ ~dtrEnabled
  /\ maxChunkHeight = 0
  /\ bm.h = 1
  /\ Len(bm.hdrs) = 2
  /\ bm.hdrs[2].rows = 0
  /\ bm.rowStart = 0

\* --- C9 --------------------------------------------------------------
\* ceil(w / 8)
RefRowBytes(w) == IF w % 8 = 0 THEN w \div 8 ELSE (w \div 8) + 1

RefClipped(w) == Min(RefRowBytes(w), 48)

\* The reference transfer of a w x h bitmap in chunks of at most limit
\* rows: per chunk a header DC2 '*' n c and then n rows, of each row r its
\* first c = RefClipped(w) bytes, which start at offset r * RefRowBytes(w)
\* of the pixel data.  Byte p of the transfer lies in chunk (p - 1) \div per.
RefTransfer(w, h, seed, limit) ==
  LET c == RefClipped(w)
      per == 4 + limit * c
      chunks == (h + limit - 1) \div limit
  IN [p \in 1..(4 * chunks + h * c) |->
        LET k == (p - 1) \div per
            q == (p - 1) % per
            n == Min(limit, h - k * limit)
            r == k * limit + ((q - 4) \div c)
        IN IF q < 4 THEN <<18, 42, n, c>>[q + 1]
           ELSE BitmapByte(seed, r * RefRowBytes(w) + ((q - 4) % c))]

RefLimit(w) ==
  IF dtrEnabled THEN 255 ELSE Min(maxChunkHeight, 256 \div RefClipped(w))

RECURSIVE SumRows(_)
SumRows(hdrs) == IF hdrs = <<>> THEN 0 ELSE Head(hdrs).rows + SumRows(Tail(hdrs))

\* C9: with maxChunkHeight in 1..255, a printBitmap() of either overload
\* has written exactly the reference transfer: chunks whose heights sum to
\* h, each row its first min(ceil(w/8), 48) bytes taken from offset
\* r * ceil(w/8); the streaming overload has read h * ceil(w/8) bytes.
C9_BitmapEqualsReference ==
  (/\ pc = "returned"
   /\ lastOp \in {"printBitmap", "printBitmapStream"}
   /\ maxChunkHeight \in 1..255)
    => (/\ LET ref == RefTransfer(bm.w, bm.h, bm.seed, RefLimit(bm.w))
           IN /\ Len(tx) = Len(ref)
              /\ \A p \in 1..Len(tx) : tx[p] = ref[p]
        /\ SumRows(bm.hdrs) = bm.h
        /\ lastOp = "printBitmapStream" => bm.pos = bm.h * RefRowBytes(bm.w)
        /\ lastOp = "printBitmap" => bm.i = bm.h * RefRowBytes(bm.w))

\* C9: a streamed bitmap of 400 x 10 has gone out without the handshake
\* line and with maxChunkHeight = 255: two chunks of 5 rows, 48 bytes of
\* each row sent and 2 read and dropped.
C9_TwoChunksOfFive ==
  /\ pc = "returned"
  /\ lastOp = "printBitmapStream"
  /\ ~dtrEnabled
  /\ maxChunkHeight = 255
  /\ bm.w = 400 /\ bm.h = 10
  /\ Len(bm.hdrs) = 2
  /\ bm.hdrs[1].rows = 5 /\ bm.hdrs[2].rows = 5
  /\ Len(tx) = 2 * 4 + 10 * 48
  /\ bm.pos = 10 * 50

\* --- C10 -------------------------------------------------------------
\* C10, as the code has it: hasPaper() returns false exactly when bits 5
\* and 6 of the status byte are both set, and true for every other byte.
C10_PaperOutWhenBothBitsSet ==
  (pc = "returned" /\ lastOp = "hasPaper")
    => (/\ paper \in {0, 1}
        /\ status \in 0..255
        /\ (paper = 0) <=> ((status \div 32) % 4 = 3))

\* C10, as stated: hasPaper() returns false for the status byte 96 and
\* true for every other byte 0..255.
C10_PaperOutOnlyFor96 ==
  (pc = "returned" /\ lastOp = "hasPaper")
    => ((paper = 0) <=> (status = 96))

\* C10: hasPaper() has returned false for the status byte 114 (paper out,
\* with the fixed bits of the answer set).
C10_PaperOutFor114 ==
  /\ pc = "returned"
  /\ lastOp = "hasPaper"
  /\ status = 114
  /\ paper = 0

\* --- C11 -------------------------------------------------------------
\* C11: getStatus(page), called on its own or by hasPaper(), writes the
\* three request bytes and nothing else, waits neither for resumeTime nor
\* for the handshake line, spends 100 ms per poll that finds nothing and
\* never more than ten such polls, and returns the byte the printer
\* answered when it arrived by the tenth poll, 255 otherwise.
C11_StatusPollBounded ==
  (pc = "returned" /\ lastOp \in {"getStatus", "hasPaper"})
    => (/\ tx = <<16, 4, args[1]>>
        /\ ~waited
        /\ elapsed = 3 * latency + 100000 * Min(args[2], 10)
        /\ elapsed <= 3 * latency + 10 * 100000
        /\ status = (IF args[2] < 10 THEN args[3] ELSE 255))

\* C11: with the handshake enabled and a transport that is slow to notice
\* the line, getStatus() has returned 255 after ten polls for an answer
\* that would have arrived at the thirteenth.
C11_TenPollsThenSentinel ==
  /\ pc = "returned"
  /\ lastOp = "getStatus"
  /\ dtrEnabled
  /\ slack > 0
  /\ args[2] = 12
  /\ status = 255
  /\ elapsed = 3 * latency + 1000000

\* --- C12 -------------------------------------------------------------
\* the valid font nearest to a setFont() argument: a number above 4 and a
\* letter past 'E' are font 4 (E)
NearestFont(font) ==
  IF font < 65 THEN Min(font, 4)
  ELSE LET u == IF font >= 97 /\ font <= 122 THEN font - 32 ELSE font
       IN IF u > 69 THEN 4 ELSE u - 65

\* C12: when setFont(font) has returned, the font selected (the low three
\* bits of fontData, and the byte sent with ESC 'M') is the valid font
\* nearest to the argument.
C12_FontClampedToNearest ==
  (pc = "returned" /\ lastOp = "setFont")
    => (/\ fontData % 8 = NearestFont(args[1])
        /\ tx[3] = NearestFont(args[1]))

\* C12: setFont(5) or setFont('F') has returned with font 0 (A) selected
\* and sent to the printer.
C12_PastLastFontSelectsFirst ==
  /\ pc = "returned"
  /\ lastOp = "setFont"
  /\ args[1] \in {5, 70}
  /\ fontData % 8 = 0
  /\ SubSeq(tx, 1, 3) = <<ASCII_ESC, 77, 0>>

\* --- C13 -------------------------------------------------------------
\* the two style bits of a font-data byte: bit 7 and bit 3
StyleBits(x) == <<(x \div 128) % 2, (x \div 8) % 2>>

\* C13: a call of setFont() leaves printMode and the two style bits of
\* fontData as they were before the call.
C13_SetFontKeepsStyle ==
  [][(pc = "idle" /\ pc' = "returned" /\ lastOp' = "setFont")
       => (/\ printMode' = printMode
           /\ StyleBits(fontData') = StyleBits(fontData))]_vars

\* --- C14 -------------------------------------------------------------
\* C14: after timeoutSet(x), timeoutWait() returns at the first clock
\* reading the loop sees at which x microseconds have passed since the
\* timeoutSet(): at once when they already have, otherwise x microseconds
\* after the timeoutSet() (and slack later, when the loop is late to look).
C14_WaitEndsWhenDurationPassed ==
  (pc = "returned" /\ lastOp = "timeoutWait")
    => (/\ elapsed >= args[2]
        /\ elapsed = (IF args[3] >= args[2] THEN args[3] ELSE args[2] + slack)
        /\ waited = (args[3] < args[2]))

\* C14: timeoutWait() was called half a counter period after a deadline
\* had passed, and waited another half period for it.
C14_WaitsForPassedDeadline ==
  /\ pc = "returned"
  /\ lastOp = "timeoutWait"
  /\ args[3] = args[2] + (ClockMod \div 2)
  /\ waited
  /\ elapsed = args[3] + (ClockMod \div 2) + slack

\* --- C15 -------------------------------------------------------------
\* C15: once dtrEnabled is set it stays set; a call made with dtrEnabled
\* set leaves resumeTime where it was (shift = 0) and none of its waits
\* is a wait for resumeTime; with no pin (dtrPin = 255) dtrEnabled is
\* never set.
C15_HandshakeStays ==
  [][/\ dtrEnabled => dtrEnabled'
     /\ dtrPin' = NO_DTR => ~dtrEnabled'
     /\ dtrEnabled => (shift' = 0 /\ ~waited')]_vars

\* C15: a call made with the handshake line in use, while the deadline that
\* begin() left was still ahead, called timeoutSet() and wrote its bytes
\* without moving the deadline or waiting for it.
C15_DeadlineAheadIgnored ==
  /\ pc = "returned"
  /\ lastOp # "begin"
  /\ dtrEnabled
  /\ due > 0
  /\ lastSet > 0
  /\ Len(tx) > 0
  /\ shift = 0
  /\ ~waited

\* --- C16 -------------------------------------------------------------
\* the calls that end in adjustCharValues() through setFont(),
\* setPrintMode() or unsetPrintMode()
MetricOps ==
  {"setFont", "doubleHeightOn", "doubleHeightOff", "doubleWidthOn",
   "doubleWidthOff", "boldOn", "boldOff", "strikeOn", "strikeOff"}
    \cup (IF firmware < 268
          THEN {"inverseOn", "inverseOff", "upsideDownOn", "upsideDownOff"}
          ELSE {})

\* C16: when setFont(), setPrintMode() or unsetPrintMode() has returned
\* with one of the fonts 0..4 selected, charWidth and charHeight are the
\* table values of that font, doubled under the double-width and
\* double-height flags of printMode, and maxColumn = 384 div charWidth,
\* whatever the metrics were before the call.
C16_MetricsFromTable ==
  (pc = "returned" /\ lastOp \in MetricOps /\ fontData % 8 <= 4)
    => (/\ charWidth = MetricsWidth
        /\ charHeight = MetricsHeight
        /\ maxColumn = 384 \div charWidth)

\* C16: setFont('C') with no style flag set has returned with width 9,
\* height 17 and 42 columns.
C16_FontCPlain ==
  /\ pc = "returned"
  /\ lastOp = "setFont"
  /\ args = <<67>>
  /\ printMode = 0
  /\ charWidth = 9
  /\ charHeight = 17
  /\ maxColumn = 42

\* --- C17 -------------------------------------------------------------
\* C17: underlineOn(w) sends ESC '-' min(w, 2), setCharset(v) sends
\* ESC 'R' min(v, 15), setCodePage(v) sends ESC 't' min(v, 47),
\* setBarcodeHeight(v) stores max(v, 1) and sends GS 'h' max(v, 1), each
\* for every argument and with nothing else sent; the barcode printed
\* later is timed by the stored height.
C17_ArgumentsClamped ==
  /\ (pc = "returned" /\ lastOp = "underlineOn")
       => tx = <<ASCII_ESC, 45, Min(args[1], 2)>>
  /\ (pc = "returned" /\ lastOp = "setCharset")
       => tx = <<ASCII_ESC, 82, Min(args[1], 15)>>
  /\ (pc = "returned" /\ lastOp = "setCodePage")
       => tx = <<ASCII_ESC, 116, Min(args[1], 47)>>
  /\ (pc = "returned" /\ lastOp = "setBarcodeHeight")
       => (/\ barcodeHeight = (IF args[1] > 1 THEN args[1] ELSE 1)
           /\ tx = <<ASCII_GS, 104, barcodeHeight>>)
  /\ (pc = "returned" /\ lastOp = "printBarcode")
       => (/\ barcodeHeight >= 1
           /\ lastSet = (barcodeHeight + 40) * dotPrintTime)

\* C17: a barcode printed after setBarcodeHeight(0) was timed for a
\* height of 1.
C17_BarcodeOfHeightOne ==
  /\ pc = "returned"
  /\ lastOp = "printBarcode"
  /\ barcodeHeight = 1
  /\ lastSet = 41 * dotPrintTime

\* --- C18 -------------------------------------------------------------
\* C18: printBitmap(fromStream) prints a bitmap of width b0 + 256 * b1 and
\* height b2 + 256 * b3, for the four bytes b0..b3 the source delivers
\* first (however many of them had arrived when the call was made), and
\* takes none of the four as pixel data.
C18_HeaderBytesAwaited ==
  (pc \in {"bitmap", "returned"} /\ lastOp = "printBitmapFromStream")
    => (/\ bm.w = args[2][1] + 256 * args[2][2]
        /\ bm.h = args[2][3] + 256 * args[2][4]
        /\ bm.pos >= 0)

\* C18: called with two header bytes delivered, printBitmap(fromStream)
\* took the height from two reads that returned -1 and has sent a chunk of
\* a bitmap of 65535 rows.
C18_HeightFromEmptyReads ==
  /\ pc = "bitmap"
  /\ lastOp = "printBitmapFromStream"
  /\ args[1] = 2
  /\ bm.h = 65535
  /\ Len(bm.hdrs) >= 1

\* --- C19 -------------------------------------------------------------
\* C19: for a bitmap of width >= 1 printed with maxChunkHeight >= 1, the
\* row count byte of every chunk header is the number of rows sent after
\* that header.
C19_HeaderCountsRowsSent ==
  (pc \in {"bitmap", "returned"} /\ bm.w >= 1 /\ maxChunkHeight >= 1)
    => \A k \in 1..Len(bm.hdrs) : bm.hdrs[k].rows = bm.hdrs[k].streamed

\* C19: after setMaxChunkHeight(256), a bitmap of 8 x 256 went out without
\* the handshake line as one chunk: DC2 '*' 0 1, then 256 rows of one byte.
C19_RowCountWrapsToZero ==
  /\ pc = "returned"
  /\ lastOp = "printBitmap"
  /\ maxChunkHeight = 256
  /\ bm.w = 8 /\ bm.h = 256
  /\ Len(bm.hdrs) = 1
  /\ bm.hdrs[1].rows = 0 /\ bm.hdrs[1].streamed = 256
  /\ SubSeq(tx, 1, 4) = <<ASCII_DC2, 42, 0, 1>>
  /\ Len(tx) = 4 + 256

\* --- C20 -------------------------------------------------------------
\* what printBarcode() sends before the text: the feed (ESC 'd' 1, or one
\* newline on old firmware), GS 'H' 2, GS 'w' 3, GS 'k' type and, on
\* firmware >= 264, the length byte
BarcodePrologue == IF firmware >= 264 THEN 13 ELSE 10

\* the characters of the text sent so far
BarcodeData ==
  {k \in (BarcodePrologue + 1)..Len(tx) : tx[k] # 0}

\* C20: printBarcode() ends for a text of any length on both firmware
\* paths (a lap of its loop that has run has ended the call) and sends at
\* most 255 characters of the text.
C20_BarcodeEndsWithin255 ==
  (lastOp = "printBarcode" /\ pc \in {"barcode", "returned"})
    => (/\ Cardinality(BarcodeData) <= 255
        /\ pc = "barcode" => Len(tx) = BarcodePrologue)

\* C20: on firmware 263 a text of 256 characters has gone out twice and
\* the loop is back at its first character.
C20_SecondLapOfLongText ==
  /\ pc = "barcode"
  /\ lastOp = "printBarcode"
  /\ firmware < 264
  /\ Len(args[1]) = 256
  /\ Len(tx) = BarcodePrologue + 2 * 256
  /\ \A k \in 1..256 : /\ tx[BarcodePrologue + k] = args[1][k]
                         /\ tx[BarcodePrologue + 256 + k] = args[1][k]

\* --- C21 -------------------------------------------------------------
\* the line heights the call has sent: the third byte of every ESC '3' n
LineHeightsSent ==
  {tx[k + 2] : k \in {j \in 1..(Len(tx) - 2) : tx[j] = ASCII_ESC /\ tx[j + 1] = 51}}

\* C21: when begin() or setDefault() has returned, charHeight = 24 and
\* lineSpacing = 6, a text line is charged 24 * dotPrintTime +
\* 6 * dotFeedTime, and every line height setDefault() has sent is 30 =
\* charHeight + lineSpacing.
C21_DefaultLineIsThirty ==
  (pc = "returned" /\ lastOp \in {"begin", "setDefault"})
    => (/\ charHeight = 24
        /\ lineSpacing = 6
        /\ charHeight * dotPrintTime + lineSpacing * dotFeedTime
             = 24 * dotPrintTime + 6 * dotFeedTime
        /\ lastOp = "setDefault"
             => (30 \in LineHeightsSent
                 /\ \A n \in LineHeightsSent : n = charHeight + lineSpacing))

\* C21: setDefault() has returned with lineSpacing = 10 under characters
\* of 24 dots, after sending the line heights 30 and 34.
C21_DefaultSpacingIsTen ==
  /\ pc = "returned"
  /\ lastOp = "setDefault"
  /\ charHeight = 24
  /\ lineSpacing = 10
  /\ {30, 34} \subseteq LineHeightsSent

\* --- C22 -------------------------------------------------------------
\* C22: on firmware >= 264 and without the handshake line, feed(x) with
\* x >= 1 leaves resumeTime at least x * (charHeight + lineSpacing) *
\* dotFeedTime after the time of the call.
C22_FeedChargedPerLine ==
  (/\ pc = "returned" /\ lastOp = "feed"
   /\ firmware >= 264 /\ ~dtrEnabled /\ args[1] >= 1)
    => elapsed + due >= args[1] * (charHeight + lineSpacing) * dotFeedTime

\* C22: feed(2) has returned on firmware >= 264 with resumeTime
\* charHeight * dotFeedTime after its three bytes, less than the charge of
\* one blank line after the call.
C22_FeedChargedCharHeight ==
  /\ pc = "returned" /\ lastOp = "feed"
  /\ firmware >= 264 /\ ~dtrEnabled /\ args[1] = 2
  /\ ~waited
  /\ lineSpacing > 0
  /\ elapsed = 3 * latency
  /\ due = charHeight * dotFeedTime
  /\ elapsed + due < (charHeight + lineSpacing) * dotFeedTime

\* --- C23 -------------------------------------------------------------
\* C23: without the handshake line, every call returns with resumeTime
\* not earlier than it was when the call was made, and the feed time that
\* feedRows() sets in place of the transmission time of its three bytes
\* is not earlier than that.
C23_DeadlineNeverEarlier ==
  (pc = "returned" /\ ~dtrEnabled)
    => (/\ shift >= 0
        /\ lastOp = "feedRows" => lastSet >= 3 * BYTE_TIME)

\* C23: hasPaper() was called while the printer was busy: its request
\* went out before resumeTime, and resumeTime is now earlier than it was.
C23_StatusRequestPullsDeadline ==
  /\ pc = "returned"
  /\ lastOp = "hasPaper"
  /\ ~dtrEnabled
  /\ early
  /\ lastSet = 3 * BYTE_TIME
  /\ shift < 0

\* --- C24 -------------------------------------------------------------
\* the step is the return of a call that ends the print line: write() of
\* a newline or of a character at column == maxColumn, feed(), feedRows(),
\* printBarcode(), either printBitmap(), reset()
LineEnded ==
  /\ pc' = "returned"
  /\ \/ /\ lastOp' = "write"
        /\ Len(tx') = 1
        /\ (tx'[1] = ASCII_LF \/ column = maxColumn)
     \/ lastOp' \in {"feed", "feedRows", "printBarcode", "printBitmap",
                     "printBitmapStream", "reset"}

\* C24: every call that ends the print line returns with column = 0 and
\* prevByte = newline, whatever the state it was made in.
C24_LineEndResetsColumn ==
  [][LineEnded => (column' = 0 /\ prevByte' = ASCII_LF)]_vars

\* C24: printBitmap() was called after one character of a line and has
\* returned with prevByte = newline and column still 1.
C24_BitmapKeepsColumn ==
  /\ pc = "returned"
  /\ lastOp \in {"printBitmap", "printBitmapStream"}
  /\ prevByte = ASCII_LF
  /\ column = 1

\* --- C25 -------------------------------------------------------------
\* C25: printBitmap(w, h, bitmap) with w >= 1 and h >= 0 ends after
\* finitely many chunk headers under every maxChunkHeight: each pass of
\* its loop, entered with rowStart < h, leaves rowStart larger than it
\* found it.
C25_EveryChunkAdvances ==
  [][(pc = "bitmap" /\ pc' = "bitmap" /\ lastOp = "printBitmap" /\ bm.w >= 1)
       => bm'.rowStart > bm.rowStart]_vars

\* C25: after setMaxChunkHeight(0), printBitmap() of a bitmap of one row
\* has issued MaxChunks chunk headers, each for no rows, and rowStart is
\* still 0, below h.
C25_RowStartStandsStill ==
  /\ pc = "bitmap"
  /\ lastOp = "printBitmap"
  /\ ~dtrEnabled
  /\ maxChunkHeight = 0
  /\ bm.h = 1
  /\ Len(bm.hdrs) = MaxChunks
  /\ \A k \in 1..MaxChunks : bm.hdrs[k].rows = 0
  /\ bm.rowStart = 0

====
